---------------------------- MODULE Spec2Model ----------------------------
(* The chained cross-fill sequencer of src/cross_fill.py: main() and        *)
(* chain_trade(), with the position oracle, the order gateway, the order    *)
(* book and the database as an environment that answers every call with     *)
(* any value of its range or by raising.                                    *)
(*                                                                          *)
(* Quantities (position sizes, order sizes) are whole shares.  Prices are   *)
(* carried in half ticks, so that the mid price (ask + bid) / 2 is exact.   *)
(* An Optional value is a set with no element (None) or one element.        *)
EXTENDS Integers, Sequences, FiniteSets, TLC

\* ------------------------------------------------------------------ bounds
MaxSize == 2        \* --volume is drawn from 1..MaxSize; oracle reads from 0..MaxSize
MaxIter == 1        \* --iterations is drawn from 0..MaxIter
MaxTick == 1        \* best bid is drawn from 1..MaxTick ticks, best ask lies above it
MaxRestarts == 1    \* misfill restarts of chain_trade followed per session
NumWallets == 5     \* rows of the wallets CSV (main needs at least 5)
MaxQty == 5         \* the classifier's table: sold, bought in -MaxQty..MaxQty

\* ------------------------------------------------------- program constants
FirstChainLen == 5  \* clients[:5]
SampleK == 4        \* random.sample(pool, k=4)

VARIABLES
    pc,           \* where main() / chain_trade() stands
    status,       \* trading_sessions.status of the session
    status_writes,\* the terminal statuses written, in order
    trades,       \* the trades table: number of rows per (trade_type, side),
                  \* followed while the session is clean (see clean); the
                  \* rows of every step are in ev whether it is clean or not
    chain_rows,   \* the chain_sequences table, in insertion order
    iterations,   \* args.iterations
    size,         \* main's size = args.volume
    best_bid,     \* main's best_bid, half ticks
    best_ask,     \* main's best_ask, half ticks
    iter_no,      \* the chain being recorded / walked (0 = first chain)
    last_wallet,  \* last_wallet_obj['id']
    next_group,   \* the group main hands to record_sequence and chain_trade
    ct,           \* the running chain_trade invocation: arguments and locals
    restarts,     \* misfill restarts so far (depth of the tail recursion)
    ev,           \* the external calls made by the last step, in order
    err,          \* the exception the except clause of main caught
    err_at,       \* the step that raised it
    exit_err,     \* the exception main exited with ("none": returned)
    clean,        \* so far: no call raised, the head started below target,
                  \* and every oracle read showed a full fill at once
    cl,           \* the classifier table's current row (SpecClassify only)
    run,          \* cross_fill_runner.main and its workers (SpecRunner only)
    book,         \* an order book and fetch_nbbo's result (SpecNbbo only)
    cfg,          \* the environment, the .env file and load_settings' result
                  \* (SpecSettings only)
    scan          \* scan_and_write's files and result (SpecScan only)

vars == <<pc, status, status_writes, trades, chain_rows, iterations, size,
          best_bid, best_ask, iter_no, last_wallet, next_group, ct, restarts,
          ev, err, err_at, exit_err, clean, cl, run, book, cfg, scan>>

mainVars == <<pc, status, status_writes, trades, chain_rows, iterations, size,
              best_bid, best_ask, iter_no, last_wallet, next_group, ct,
              restarts, ev, err, err_at, exit_err, clean>>

\* The state of the other programs of the repository, one variable each
others == <<cl, run, book, cfg, scan>>

\* ---------------------------------------------------------------- helpers
Positions == 0 .. MaxSize          \* what the position oracle may answer
None == {}
Some(x) == {x}
Truthy(opt) == \E x \in opt : x # 0   \* Python truth of an Optional[float]

\* (faulty variant) the head of the list instead of its tail
Last_Head(s) == s[1]

\* group[-1]
Last(s) == s[Len(s)]

\* One external call.  w: the wallet id (-1: none); tag: the trade type of a
\* log_trade, the kind of a raise, "buy"/"sell" for the order a cancel names.
Call(op, w, side, tag, price, qty) ==
    [op |-> op, w |-> w, side |-> side, tag |-> tag, price |-> price, size |-> qty]
Order(w, side, price, qty) == Call("order", w, side, "-", price, qty)
Cancel(w, which)           == Call("cancel", w, "-", which, 0, 0)
CancelFailed(w, which)     == Call("cancel_failed", w, "-", which, 0, 0)
Read(w)                    == Call("read", w, "-", "-", 0, 0)
Nbbo                       == Call("nbbo", -1, "-", "-", 0, 0)
LogTrade(w, side, price, qty, type) == Call("log_trade", w, side, type, price, qty)
Raise(kind)                == Call("raise", -1, "-", kind, 0, 0)

IsOrder(c) == c.op = "order"
Orders(calls) == SelectSeq(calls, IsOrder)
IsCancel(c) == c.op \in {"cancel", "cancel_failed"}
Cancels(calls) == SelectSeq(calls, IsCancel)
IsRead(c) == c.op = "read"
Reads(calls) == SelectSeq(calls, IsRead)
IsLog(c) == c.op = "log_trade"
Logs(calls) == SelectSeq(calls, IsLog)

\* Injective sequences of length k over the elements of the sequence pool:
\* the results of random.sample(pool, k).
Range(s) == {s[j] : j \in 1 .. Len(s)}
Samples(pool, k) ==
    {s \in [1 .. k -> Range(pool)] : \A a, b \in 1 .. k : a # b => s[a] # s[b]}

Clients == [j \in 1 .. NumWallets |-> j - 1]      \* clients[j-1]['id'] = j-1

\* main: mid_price = (best_ask + best_bid) / 2, on half ticks
MidPrice(bid, ask) == (ask + bid) \div 2

NoTrades == [initial_buy |-> 0, match_buy |-> 0, match_sell |-> 0, final_sell |-> 0]

\* chain_trade's frame before a call
NoFrame ==
    [group |-> <<>>, initial_size |-> 0, buy_price |-> 0, mid_price |-> 0,
     skip_initial_buy |-> FALSE, size |-> 0, i |-> 0, start_vol0 |-> 0,
     post_vol0 |-> 0, acquired |-> 0, start_seller |-> 0, start_buyer |-> 0, remaining |-> 0,
     sold |-> 0, bought |-> 0, post_seller |-> 0, re_sold |-> 0, re_bought |-> 0]

\* (faulty variant) skip_initial_buy is dropped: Phase A always runs
Frame_NeverSkip(group, initial_size, buy_price, mid_price, skip) ==
    [NoFrame EXCEPT !.group = group, !.initial_size = initial_size,
                    !.buy_price = buy_price, !.mid_price = mid_price,
                    !.skip_initial_buy = FALSE, !.size = initial_size]

\* chain_trade(group, ..., initial_size, buy_price, mid_price, skip_initial_buy=..):
\* the frame at entry; size = initial_size
Frame(group, initial_size, buy_price, mid_price, skip) ==
    [NoFrame EXCEPT !.group = group, !.initial_size = initial_size,
                    !.buy_price = buy_price, !.mid_price = mid_price,
                    !.skip_initial_buy = skip, !.size = initial_size]

NoRow == [sold |-> 0, bought |-> 0, remaining |-> 1, re_sold |-> 0, re_bought |-> 0,
          class |-> "-", anomaly |-> "-"]


\* ------------------------------------------------- chain_trade's decisions
\* (faulty variant) the head counts as holding the target only when it holds more
AlreadyAcquired_Strict(start_vol0, target) == start_vol0 > target

\* Phase A: "if start_vol0 >= size" -- the head already holds the target
AlreadyAcquired(start_vol0, target) == start_vol0 >= target

\* (faulty variant) a head that holds exactly the target is still short
StillShort_OrEqual(acquired, target) == acquired <= target

\* (faulty variant) the loop never sees the target acquired
StillShort_Always(acquired, target) == TRUE

\* Phase A: "while acquired < size" and "if acquired < size"
StillShort(acquired, target) == acquired < target

\* (faulty variant) every round buys the whole target again
BuyRemaining_Whole(target, acquired) == target

\* Phase A: "remaining = size - acquired"
BuyRemaining(target, acquired) == target - acquired

\* (faulty variant) a seller that sold nothing counts as a partial fill
Classify_ZeroPartial(sold, bought, remaining) ==
    IF sold >= remaining /\ bought >= remaining THEN "full"
    ELSE IF sold >= 0 /\ sold < remaining THEN "partial"
    ELSE "anomaly"

\* Phase B, first read: if (full match) / elif (partial fill) / else
Classify(sold, bought, remaining) ==
    IF sold >= remaining /\ bought >= remaining THEN "full"
    ELSE IF sold > 0 /\ sold < remaining THEN "partial"
    ELSE "anomaly"

\* Phase B, the else branch: the recheck is tested on the second read, the
\* divert and the misfill on the first read
AnomalyClass(sold, bought, remaining, re_sold, re_bought) ==
    IF re_sold >= remaining /\ re_bought >= remaining THEN "recheck_full"
    ELSE IF bought >= remaining /\ sold < remaining THEN "divert"
    ELSE IF sold >= remaining /\ bought = 0 THEN "misfill"
    ELSE "retry"

\* (faulty variant) the divert stays on the pair until the divert sell shows
AnomalyExit_DivertWaits(class) ==
    CASE class = "recheck_full" -> "break"
      [] class = "misfill"      -> "restart"
      [] OTHER                  -> "continue"

\* How each anomaly class leaves the else branch: break (next pair),
\* return chain_trade(...) (restart), continue (same pair again)
AnomalyExit(class) ==
    CASE class = "recheck_full" -> "break"
      [] class = "divert"       -> "break"
      [] class = "misfill"      -> "restart"
      [] OTHER                  -> "continue"

\* The divert sell is submitted only "if post_seller > 0 and best_bid"
DivertSells(post_seller, bid_now) == post_seller > 0 /\ Truthy(bid_now)

\* (faulty variant) the restart is called with what is left of the pair
RestartCall_Remaining(f) ==
    Frame(f.group, f.remaining, f.buy_price, f.mid_price, FALSE)

\* The arguments of the restart: return chain_trade(group, condition_id,
\* token_id, initial_size, buy_price, mid_price, skip_initial_buy=False, ...)
RestartCall(f) ==
    Frame(f.group, f.initial_size, f.buy_price, f.mid_price, FALSE)

\* (faulty variant) only the buyer's leg is logged
FullMatchLegs_BuyOnly(f) ==
    << LogTrade(f.group[f.i + 1], "BUY", f.mid_price, f.remaining, "chain_match") >>

\* The trade-log rows of a full match at the first read: the BUY leg, then
\* the SELL leg, both of size remaining at the mid price
FullMatchLegs(f) ==
    << LogTrade(f.group[f.i + 1], "BUY", f.mid_price, f.remaining, "chain_match"),
       LogTrade(f.group[f.i], "SELL", f.mid_price, f.remaining, "chain_match") >>

\* (faulty variant) the tail of every chain is flagged as the final seller
SequenceRows_FinalEach(iteration_number, group, mark_initial, mark_final) ==
    [k \in 1 .. Len(group) |->
        [iteration_number |-> iteration_number,
         sequence_order   |-> k - 1,
         wallet_id        |-> group[k],
         is_initial_buy   |-> (mark_initial /\ k - 1 = 0),
         is_final_sell    |-> (k - 1 = Len(group) - 1)]]

\* record_sequence: one chain_sequences row per wallet of the group
SequenceRows(iteration_number, group, mark_initial, mark_final) ==
    [k \in 1 .. Len(group) |->
        [iteration_number |-> iteration_number,
         sequence_order   |-> k - 1,
         wallet_id        |-> group[k],
         is_initial_buy   |-> (mark_initial /\ k - 1 = 0),
         is_final_sell    |-> (mark_final /\ k - 1 = Len(group) - 1)]]

\* DatabaseManager.log_trade: one more row of that trade type and side
Logged(t, call) ==
    CASE call.tag = "initial_buy" -> [t EXCEPT !.initial_buy = @ + 1]
      [] call.tag = "final_sell"  -> [t EXCEPT !.final_sell = @ + 1]
      [] call.side = "BUY"        -> [t EXCEPT !.match_buy = @ + 1]
      [] OTHER                    -> [t EXCEPT !.match_sell = @ + 1]

\* ------------------------------------------------------------------- Init
\* The state of main() once create_session has returned: the wallets are
\* loaded (at least 5), the NBBO has both sides, the session row exists with
\* the schema's default status.
InitMain ==
    /\ pc = "log_created"
    /\ status = "running"
    /\ status_writes = <<>>
    /\ trades = NoTrades
    /\ chain_rows = <<>>
    /\ iterations \in 0 .. MaxIter
    /\ size \in 1 .. MaxSize
    /\ \E bid \in 1 .. MaxTick : \E ask \in bid + 1 .. MaxTick + 1 :
          best_bid = 2 * bid /\ best_ask = 2 * ask
    /\ iter_no = 0
    /\ last_wallet = -1
    /\ next_group = SubSeq(Clients, 1, FirstChainLen)
    /\ ct = NoFrame
    /\ restarts = 0
    /\ ev = <<>>
    /\ err = "none"
    /\ err_at = "-"
    /\ exit_err = "none"
    /\ clean = TRUE

\* The other programs are not running
NoRun == [pc |-> "-"]
NoBook == [pc |-> "-"]
NoCfg == [pc |-> "-"]
NoScan == [pc |-> "-"]

Init == InitMain /\ cl = NoRow /\ run = NoRun /\ book = NoBook /\ cfg = NoCfg /\ scan = NoScan

\* What every step of main leaves alone unless it says otherwise
Session == <<iterations, size, best_bid, best_ask, others>>
MainLoop == <<iter_no, last_wallet, next_group>>

RECURSIVE LogAll(_, _)
\* log_trade called for each of the rows, in order
LogAll(t, rows) ==
    IF rows = <<>> THEN t ELSE LogAll(Logged(t, Head(rows)), Tail(rows))

\* The step wrote these rows to the trades table
Wrote(rows) ==
    /\ trades' = IF clean THEN LogAll(trades, rows) ELSE trades
    /\ clean' = clean

\* The step met something a clean run does not: the table is followed no more
Unclean ==
    /\ clean' = FALSE
    /\ trades' = NoTrades

\* An exception leaves the try block of main: the except clause takes over.
\* calls: the calls made by this step before the one that raised.
Abort(kind, calls) ==
    /\ pc' = "handler"
    /\ err' = kind
    /\ err_at' = pc
    /\ ev' = Append(calls, Raise(kind))
    /\ ct' = NoFrame
    /\ Unclean
    /\ UNCHANGED <<status, status_writes, MainLoop, restarts, exit_err, Session>>

\* A step that raises nothing: the next position and the calls it made
Go(next, calls) ==
    /\ pc' = next
    /\ ev' = calls
    /\ UNCHANGED <<status, status_writes, err, err_at, exit_err, Session>>

\* ------------------------------------------------------------ main, part 1
\* db_manager.log_message("Created trading session ...")
LogCreated ==
    /\ pc = "log_created"
    /\ \/ Go("record", <<>>) /\ Wrote(<<>>)
             /\ UNCHANGED <<chain_rows, MainLoop, ct, restarts>>
       \/ Abort("db", <<>>) /\ UNCHANGED chain_rows

\* record_sequence(db_manager, session_uuid, iteration_number=iter_no, group,
\* mark_initial=(first chain), mark_final=(iter_no == args.iterations)):
\* add_chain_step row by row; a row that raises ends it
RecordSequence ==
    /\ pc = "record"
    /\ LET rows == SequenceRows(iter_no, next_group, iter_no = 0, iter_no = iterations) IN
       \/ /\ chain_rows' = chain_rows \o rows
          /\ Go("call", <<>>) /\ Wrote(<<>>)
          /\ UNCHANGED <<MainLoop, ct, restarts>>
       \/ \E k \in 1 .. Len(rows) :
             /\ chain_rows' = chain_rows \o SubSeq(rows, 1, k - 1)
             /\ Abort("db", <<>>)

\* chain_trade(group, condition, token_id, size, buy_price, mid_price,
\* skip_initial_buy=(not the first chain), ...) with buy_price = best_ask and
\* mid_price = (best_ask + best_bid) / 2; "if not skip_initial_buy"
CallChainTrade ==
    /\ pc = "call"
    /\ LET f == Frame(next_group, size, best_ask, MidPrice(best_bid, best_ask), iter_no >= 1) IN
       IF f.skip_initial_buy
       THEN ct' = [f EXCEPT !.i = 1] /\ Go("pair", <<>>)
       ELSE ct' = f /\ Go("A_read", <<>>)
    /\ Wrote(<<>>)
    /\ UNCHANGED <<chain_rows, MainLoop, restarts>>

\* ------------------------------------------------------ chain_trade, Phase A
\* start_vol0 = get_yes_position_volume(buyer0); acquired = 0.0;
\* if start_vol0 >= size: acquired = size (no order), else the buy loop
A_ReadStart ==
    /\ pc = "A_read"
    /\ \/ Abort("oracle", <<>>) /\ UNCHANGED chain_rows
       \/ \E v \in Positions :
             /\ IF AlreadyAcquired(v, ct.size)
                THEN /\ ct' = [ct EXCEPT !.start_vol0 = v, !.acquired = ct.size, !.i = 1]
                     /\ Go("pair", <<Read(ct.group[1])>>)
                     /\ Unclean
                ELSE /\ ct' = [ct EXCEPT !.start_vol0 = v, !.acquired = 0]
                     /\ Go("A_loop", <<Read(ct.group[1])>>)
                     /\ Wrote(<<>>)
             /\ UNCHANGED <<chain_rows, MainLoop, restarts>>

\* One round of "while acquired < size": buy the remainder at buy_price,
\* sleep, re-read, acquired = post_vol0 - start_vol0; if still short, cancel
\* the order (a cancel that raises is logged and dropped) and go round again
A_BuyRound ==
    /\ pc = "A_loop"
    /\ StillShort(ct.acquired, ct.size)
    /\ LET buyer0 == ct.group[1]
           buy == Order(buyer0, "BUY", ct.buy_price, BuyRemaining(ct.size, ct.acquired))
       IN
       \/ Abort("order", <<>>) /\ UNCHANGED chain_rows
       \/ Abort("oracle", <<buy>>) /\ UNCHANGED chain_rows
       \/ \E v \in Positions :
             LET acq == v - ct.start_vol0 IN
             /\ ct' = [ct EXCEPT !.post_vol0 = v, !.acquired = acq]
             /\ IF StillShort(acq, ct.size)
                THEN /\ \/ Go("A_loop", <<buy, Read(buyer0), Cancel(buyer0, "buy")>>)
                        \/ Go("A_loop", <<buy, Read(buyer0), CancelFailed(buyer0, "buy")>>)
                     /\ Unclean
                ELSE /\ Go("A_loop", <<buy, Read(buyer0)>>)
                     /\ Wrote(<<>>)
             /\ UNCHANGED <<chain_rows, MainLoop, restarts>>

\* (faulty variant) the acquisition is logged as a chain match
InitialBuyRow_Match(f) ==
    LogTrade(f.group[1], "BUY", f.buy_price, f.size, "chain_match")

\* db_manager.log_trade(session_uuid, buyer0['db_id'], token_id, "BUY",
\* buy_price, size, "initial_buy", str(order_id))
InitialBuyRow(f) ==
    LogTrade(f.group[1], "BUY", f.buy_price, f.size, "initial_buy")

\* The loop is left (still inside the else branch of "if start_vol0 >= size"):
\* the initial_buy row is logged, then the pair loop starts at i = 1
A_LogInitial ==
    /\ pc = "A_loop"
    /\ ~StillShort(ct.acquired, ct.size)
    /\ LET row == InitialBuyRow(ct) IN
       \/ /\ Wrote(<<row>>)
          /\ ct' = [ct EXCEPT !.i = 1]
          /\ Go("pair", <<row>>)
          /\ UNCHANGED <<chain_rows, MainLoop, restarts>>
       \/ Abort("db", <<>>) /\ UNCHANGED chain_rows

\* ------------------------------------------------------ chain_trade, Phase B
\* (faulty variant) every pair is sold by the head of the chain
Seller_Head(f) == f.group[1]

\* for i in range(1, len(group)): seller = group[i-1], buyer = group[i]
\* (the sequence group is 1-based here: group[i] and group[i+1])
Seller(f) == f.group[f.i]
Buyer(f) == f.group[f.i + 1]

\* (faulty variant) the for loop hands out the same pair again
NextPair_Again(f) ==
    [f EXCEPT !.size = f.initial_size, !.remaining = 0,
              !.start_seller = 0, !.start_buyer = 0]

\* The pair is left: "size = initial_size  # reset for next wallet pair", next i.
\* sold / bought and re_sold / re_bought are what a full match (at the first
\* read, at the recheck) computed them to be, sold also what a partial fill
\* subtracted; they are followed in no other case.
NextPair(f) ==
    [f EXCEPT !.i = f.i + 1, !.size = f.initial_size, !.remaining = 0,
              !.start_seller = 0, !.start_buyer = 0]

\* remaining = size; the pre-step snapshot of both positions.  Phase A's
\* locals and the deltas of the pair before are dead from here on.
PairSnapshot ==
    /\ pc = "pair"
    /\ ct.i < Len(ct.group)
    /\ \/ Abort("oracle", <<>>) /\ UNCHANGED chain_rows
       \/ Abort("oracle", <<Read(Seller(ct))>>) /\ UNCHANGED chain_rows
       \/ \E s \in Positions, b \in Positions :
             /\ ct' = [ct EXCEPT !.start_seller = s, !.start_buyer = b,
                                 !.remaining = ct.size,
                                 !.start_vol0 = 0, !.post_vol0 = 0, !.acquired = 0,
                                 !.sold = 0, !.bought = 0,
                                 !.re_sold = 0, !.re_bought = 0]
             /\ Go("attempt", <<Read(Seller(ct)), Read(Buyer(ct))>>)
             /\ Wrote(<<>>)
             /\ UNCHANGED <<chain_rows, MainLoop, restarts>>

\* The for loop is exhausted: chain_trade returns (and with it every
\* invocation that restarted into this one); main: last_wallet_obj = group[-1]
ChainReturn ==
    /\ pc = "pair"
    /\ ct.i >= Len(ct.group)
    /\ last_wallet' = Last(ct.group)
    /\ iter_no' = iter_no + 1
    /\ ct' = NoFrame
    /\ Go("next_iter", <<>>)
    /\ Wrote(<<>>)
    /\ UNCHANGED <<chain_rows, next_group, restarts>>

\* How the else branch is left, with the locals f, after the calls it made
LeaveFrom(f, exit, calls) ==
    /\ \/ /\ exit = "break"
          /\ ct' = NextPair(f)
          /\ Go("pair", calls)
          /\ UNCHANGED restarts
       \/ /\ exit = "continue"
          /\ ct' = f
          /\ Go("attempt", calls)
          /\ UNCHANGED restarts
       \/ /\ exit = "restart"
          /\ restarts < MaxRestarts
          /\ ct' = RestartCall(f)
          /\ restarts' = restarts + 1
          /\ Go("A_read", calls)
    /\ Unclean
    /\ UNCHANGED <<chain_rows, MainLoop>>

Leave(exit, calls) == LeaveFrom(ct, exit, calls)

\* What fetch_nbbo may give as the best bid: None, or a price (0 included)
BidAnswers == {None} \cup {Some(2 * t) : t \in 0 .. MaxTick}

\* The else branch of a pass, after the calls of the first read: sleep, read
\* both positions again, then recheck full match / divert / misfill /
\* cancel and retry
Recheck(sent, sold, bought, post_seller) ==
    LET reads  == sent \o <<Read(Seller(ct)), Read(Buyer(ct))>>
        c_buy  == Cancel(Buyer(ct), "buy")
        c_sell == Cancel(Seller(ct), "sell")
    IN
    \/ Abort("oracle", sent) /\ UNCHANGED chain_rows
    \/ Abort("oracle", Append(sent, Read(Seller(ct)))) /\ UNCHANGED chain_rows
    \/ \E re_seller \in Positions, re_buyer \in Positions :
          LET re_sold   == ct.start_seller - re_seller
              re_bought == re_buyer - ct.start_buyer
              class == AnomalyClass(sold, bought, ct.remaining, re_sold, re_bought)
              exit  == AnomalyExit(class)
          IN
          \/ /\ class = "recheck_full"
             /\ LeaveFrom([ct EXCEPT !.sold = sold, !.bought = bought,
                                     !.re_sold = re_sold, !.re_bought = re_bought],
                          exit, reads)
          \/ /\ class = "divert"
             /\ \/ Abort("nbbo", reads) /\ UNCHANGED chain_rows
                \/ \E bid_now \in BidAnswers :
                      IF DivertSells(post_seller, bid_now)
                      THEN \/ Abort("order", Append(reads, Nbbo)) /\ UNCHANGED chain_rows
                           \/ \E p \in bid_now :
                                 Leave(exit, reads \o <<Nbbo,
                                       Order(Seller(ct), "SELL", p, post_seller)>>)
                      ELSE Leave(exit, Append(reads, Nbbo))
          \/ /\ class = "misfill"
             /\ \/ Abort("cancel", reads) /\ UNCHANGED chain_rows
                \/ Leave(exit, Append(reads, c_buy))
          \/ /\ class = "retry"
             /\ \/ Abort("cancel", reads) /\ UNCHANGED chain_rows
                \/ Abort("cancel", Append(reads, c_buy)) /\ UNCHANGED chain_rows
                \/ Leave(exit, reads \o <<c_buy, c_sell>>)

\* One pass of "while remaining > 0": sell and buy of remaining at the mid
\* price, sleep, read both positions, sold / bought against the snapshot,
\* then the full-match branch, the partial-fill branch or the else branch
PairAttempt ==
    /\ pc = "attempt"
    /\ ct.remaining > 0
    /\ LET sell == Order(Seller(ct), "SELL", ct.mid_price, ct.remaining)
           buy  == Order(Buyer(ct), "BUY", ct.mid_price, ct.remaining)
           sent == <<sell, buy, Read(Seller(ct)), Read(Buyer(ct))>>
       IN
       \/ Abort("order", <<>>) /\ UNCHANGED chain_rows
       \/ Abort("order", <<sell>>) /\ UNCHANGED chain_rows
       \/ Abort("oracle", <<sell, buy>>) /\ UNCHANGED chain_rows
       \/ Abort("oracle", <<sell, buy, Read(Seller(ct))>>) /\ UNCHANGED chain_rows
       \/ \E post_seller \in Positions, post_buyer \in Positions :
             LET sold   == ct.start_seller - post_seller
                 bought == post_buyer - ct.start_buyer
                 class  == Classify(sold, bought, ct.remaining)
                 legs   == FullMatchLegs(ct)
             IN
             \/ /\ class = "full"
                /\ \/ /\ Wrote(legs)
                      /\ ct' = NextPair([ct EXCEPT !.sold = sold, !.bought = bought])
                      /\ Go("pair", sent \o legs)
                      /\ UNCHANGED <<chain_rows, MainLoop, restarts>>
                   \/ \E k \in 1 .. Len(legs) :
                         /\ Abort("db", sent \o SubSeq(legs, 1, k - 1))
                         /\ UNCHANGED chain_rows
             \/ /\ class = "partial"
                /\ \/ Abort("cancel", sent) /\ UNCHANGED chain_rows
                   \/ Abort("cancel", Append(sent, Cancel(Buyer(ct), "buy")))
                         /\ UNCHANGED chain_rows
                   \/ /\ ct' = [ct EXCEPT !.remaining = ct.remaining - sold,
                                           !.sold = sold]
                      /\ Go("attempt", sent \o <<Cancel(Buyer(ct), "buy"),
                                                 Cancel(Seller(ct), "sell")>>)
                      /\ Unclean
                      /\ UNCHANGED <<chain_rows, MainLoop, restarts>>
             \/ /\ class = "anomaly"
                /\ Recheck(sent, sold, bought, post_seller)

\* ------------------------------------------------------------ main, part 2
\* (faulty variant) the pool keeps the previous tail
Pool_All(last) == Clients

\* pool = [c for c in clients if c['id'] != last_wallet_obj['id']]
Pool(last) == SelectSeq(Clients, LAMBDA c : c # last)

\* for iter_no in range(1, args.iterations + 1): sample the next group
NextIteration ==
    /\ pc = "next_iter"
    /\ iter_no <= iterations
    /\ \E sample \in Samples(Pool(last_wallet), SampleK) :
          next_group' = <<last_wallet>> \o sample
    /\ Go("record", <<>>)
    /\ Wrote(<<>>)
    /\ UNCHANGED <<chain_rows, iter_no, last_wallet, ct, restarts>>

\* The loop is over: the final sell of size at best_bid by the last wallet
FinalSell ==
    /\ pc = "next_iter"
    /\ iter_no > iterations
    /\ \/ Abort("order", <<>>) /\ UNCHANGED chain_rows
       \/ /\ Go("final_log", <<Order(last_wallet, "SELL", best_bid, size)>>)
          /\ Wrote(<<>>)
          /\ UNCHANGED <<chain_rows, MainLoop, ct, restarts>>

\* try: log_trade(final_sell); log_message(...)
\* except Exception: log_message("Failed to log final sell")
FinalLog ==
    /\ pc = "final_log"
    /\ LET row == LogTrade(last_wallet, "SELL", best_bid, size, "final_sell") IN
       \/ /\ Wrote(<<row>>)                          \* both writes succeed
          /\ Go("mark", <<row>>)
          /\ UNCHANGED <<chain_rows, MainLoop, ct, restarts>>
       \/ \E logged \in BOOLEAN :                      \* one of them raises; caught
             \/ /\ Go("mark", IF logged THEN <<row>> ELSE <<>>)
                /\ Unclean
                /\ UNCHANGED <<chain_rows, MainLoop, ct, restarts>>
             \/ /\ Abort("db", IF logged THEN <<row>> ELSE <<>>)
                /\ UNCHANGED chain_rows

\* DatabaseManager.update_session_status: the UPDATE and its commit
WriteStatus(new) ==
    /\ status' = new
    /\ status_writes' = Append(status_writes, new)

\* db_manager.update_session_status(session_uuid, "completed", ...)
MarkCompleted ==
    /\ pc = "mark"
    /\ \/ /\ WriteStatus("completed")
          /\ pc' = "log_completed"
          /\ ev' = <<>>
          /\ Wrote(<<>>)
          /\ UNCHANGED <<chain_rows, MainLoop, ct, restarts, err, err_at,
                         exit_err, Session>>
       \/ Abort("db", <<>>) /\ UNCHANGED chain_rows

\* db_manager.log_message("Trading session completed successfully"), the
\* last statement of the try block
LogCompleted ==
    /\ pc = "log_completed"
    /\ \/ Go("exit", <<>>) /\ Wrote(<<>>)
             /\ UNCHANGED <<chain_rows, MainLoop, ct, restarts>>
       \/ Abort("db", <<>>) /\ UNCHANGED chain_rows

\* except Exception as exc: db_manager.log_message("Trading session failed")
HandlerLog ==
    /\ pc = "handler"
    /\ \/ /\ pc' = "handler_status"
          /\ UNCHANGED exit_err
       \/ /\ pc' = "exit"                  \* the log write raises out of main
          /\ exit_err' = "handler_db"
    /\ ev' = <<>>
    /\ UNCHANGED <<status, status_writes, trades, chain_rows, MainLoop, ct,
                   restarts, clean, err, err_at, Session>>

\* if 'session_uuid' in locals(): update_session_status(.., "failed", ..); raise
HandlerStatus ==
    /\ pc = "handler_status"
    /\ \/ /\ WriteStatus("failed")
          /\ exit_err' = err               \* raise: the caught exception again
       \/ /\ exit_err' = "handler_db"      \* the status write raises out of main
          /\ UNCHANGED <<status, status_writes>>
    /\ pc' = "exit"
    /\ ev' = <<>>
    /\ UNCHANGED <<trades, chain_rows, MainLoop, ct, restarts, clean, err,
                   err_at, Session>>

Next ==
    \/ LogCreated \/ RecordSequence \/ CallChainTrade
    \/ A_ReadStart \/ A_BuyRound \/ A_LogInitial
    \/ PairSnapshot \/ ChainReturn \/ PairAttempt
    \/ NextIteration \/ FinalSell \/ FinalLog
    \/ MarkCompleted \/ LogCompleted \/ HandlerLog \/ HandlerStatus

Spec == Init /\ [][Next]_vars

\* ------------------------------------------------ the venue fills (liveness)
\* A round of the acquisition loop whose read shows the target acquired: the
\* resting buy was filled and the fill is visible to the oracle
AcquisitionFills == A_BuyRound /\ ct'.acquired >= ct.size

\* main runs on as long as it has a step to take (one thread, every call
\* returns or raises), and a fill that can show up again and again does show
SpecVenueFills == Spec /\ WF_vars(Next) /\ SF_vars(AcquisitionFills)

\* ------------------------------------------------- the classifier's table
\* Every (sold, bought, remaining) of the table, with the deltas of a second
\* read, put through the two decisions of "while remaining > 0" (remaining > 0
\* there)
Quantities == -MaxQty .. MaxQty

InitClassify ==
    /\ InitMain
    /\ iterations = 0 /\ size = 1
    /\ cl \in [sold : Quantities, bought : Quantities, remaining : 1 .. MaxQty,
               re_sold : Quantities, re_bought : Quantities,
               class : {"-"}, anomaly : {"-"}]
    /\ run = NoRun /\ book = NoBook /\ cfg = NoCfg /\ scan = NoScan

ClassifyRow ==
    /\ cl.class = "-"
    /\ LET class == Classify(cl.sold, cl.bought, cl.remaining) IN
       cl' = [cl EXCEPT !.class = class,
                        !.anomaly = IF class = "anomaly"
                                    THEN AnomalyClass(cl.sold, cl.bought, cl.remaining,
                                                      cl.re_sold, cl.re_bought)
                                    ELSE "-"]
    /\ UNCHANGED <<mainVars, run, book, cfg, scan>>

SpecClassify == InitClassify /\ [][ClassifyRow]_vars

\* ================================================================= claims
HasCall(calls, op) == \E k \in 1 .. Len(calls) : calls[k].op = op
IndexOf(calls, op) == CHOOSE k \in 1 .. Len(calls) : calls[k].op = op
WalkSteps == {"A_read", "A_loop", "pair", "attempt"}

\* C1: the outcome of a pair attempt is a function of (sold, bought,
\* remaining): full exactly when sold >= remaining and bought >= remaining,
\* partial exactly when 0 < sold < remaining, anything else an anomaly; in
\* the anomaly branch without a recheck full match, divert exactly when
\* bought >= remaining and sold < remaining, misfill exactly when
\* sold >= remaining and bought = 0, otherwise cancel-and-retry; the four
\* table rows (5,5,5), (3,3,5), (5,0,5), (0,5,5) come out full, partial,
\* misfill, divert; no row is in two classes.
C1_Classification ==
    cl.class # "-" =>
    LET s == cl.sold
        b == cl.bought
        r == cl.remaining
        full    == s >= r /\ b >= r
        partial == 0 < s /\ s < r
        refull  == cl.re_sold >= r /\ cl.re_bought >= r
        divert  == b >= r /\ s < r
        misfill == s >= r /\ b = 0
    IN
    /\ (cl.class = "full") <=> full
    /\ (cl.class = "partial") <=> partial
    /\ (cl.class = "anomaly") <=> (~full /\ ~partial)
    /\ ~(full /\ partial) /\ ~(divert /\ misfill) /\ ~(full /\ misfill)
    /\ cl.class # "anomaly" => cl.anomaly = "-"
    /\ cl.class = "anomaly" =>
          /\ (cl.anomaly = "recheck_full") <=> refull
          /\ ~refull => /\ (cl.anomaly = "divert") <=> divert
                        /\ (cl.anomaly = "misfill") <=> misfill
                        /\ (cl.anomaly = "retry") <=> (~divert /\ ~misfill)
    /\ (s = 5 /\ b = 5 /\ r = 5) => cl.class = "full"
    /\ (s = 3 /\ b = 3 /\ r = 5) => cl.class = "partial"
    /\ (s = 5 /\ b = 0 /\ r = 5 /\ ~refull) => cl.anomaly = "misfill"
    /\ (s = 0 /\ b = 5 /\ r = 5 /\ ~refull) => cl.anomaly = "divert"

C1_Witness ==
    /\ cl.sold = 0 /\ cl.bought = 5 /\ cl.remaining = 5
    /\ cl.class = "anomaly" /\ cl.anomaly = "divert"

\* C2: with the head below target, every round of the acquisition loop
\* submits one buy whose size is target minus acquired at the entry of the
\* round, and the loop is left for the trade log only with
\* acquired = last read position - start >= target.
C2_AcquisitionLoop ==
    [][pc = "A_loop" =>
         /\ Orders(ev') # <<>> =>
               /\ Len(Orders(ev')) = 1
               /\ ev'[1] = Order(ct.group[1], "BUY", best_ask, size - ct.acquired)
         /\ pc' = "pair" =>
               /\ ct.acquired >= size
               /\ ct.acquired = ct.post_vol0 - ct.start_vol0
               /\ ct.start_vol0 < size]_vars

C2_Witness ==
    /\ pc = "A_loop"
    /\ ct.acquired >= size
    /\ Len(Orders(ev)) = 1
    /\ ev[1].size < size

\* C3: when the head's position read at the entry of Phase A is at least the
\* target, Phase A is that one read: no order, no cancel, and the next step
\* is the first pair of the walk.
C3_NoOrderWhenHeld ==
    [][(pc = "A_read" /\ pc' # "handler" /\ ct'.start_vol0 >= size) =>
         /\ pc' = "pair"
         /\ ct'.i = 1
         /\ ev' = <<Read(ct.group[1])>>
         /\ Orders(ev') = <<>>
         /\ Cancels(ev') = <<>>]_vars

C3_Witness ==
    /\ pc = "pair"
    /\ ct.i = 1
    /\ ~ct.skip_initial_buy
    /\ ct.start_vol0 >= size
    /\ Orders(ev) = <<>>

\* C4: a misfill restart re-enters Phase A (skip_initial_buy = False) with
\* the group, the target size, the acquisition price and the mid price main
\* passed, whatever is left of the pair; the pairs of the restarted walk
\* start with remaining = target.
C4_RestartOriginal ==
    [][/\ restarts' = restarts + 1 =>
             /\ pc' = "A_read"
             /\ ct' = Frame(next_group, size, best_ask,
                            MidPrice(best_bid, best_ask), FALSE)
       /\ (restarts >= 1 /\ pc = "pair" /\ pc' = "attempt") =>
             /\ ct'.remaining = size
             /\ ct'.group = next_group
             /\ ct'.mid_price = MidPrice(best_bid, best_ask)]_vars

C4_Witness ==
    /\ pc = "A_read"
    /\ restarts = 1
    /\ iter_no = 1
    /\ Orders(ev) # <<>>
    /\ ev[1].size < size
    /\ ct.initial_size = size

\* C5: a divert (the only branch that fetches the NBBO) that does not raise
\* goes on to the next pair in the same step, with no call after the NBBO
\* fetch other than the divert sell itself: no position read, no cancel.
C5_DivertAdvances ==
    [][(HasCall(ev', "nbbo") /\ pc' # "handler") =>
         LET k == IndexOf(ev', "nbbo")
             after == SubSeq(ev', k + 1, Len(ev'))
         IN
         /\ pc = "attempt"
         /\ pc' = "pair"
         /\ ct'.i = ct.i + 1
         /\ \/ after = <<>>
            \/ /\ Len(after) = 1
               /\ after[1].op = "order"
               /\ after[1].w = ct.group[ct.i]
               /\ after[1].side = "SELL"
         /\ Reads(after) = <<>>]_vars

C5_Witness ==
    /\ pc = "pair"
    /\ HasCall(ev, "nbbo")
    /\ Last(ev).op = "order"
    /\ ct.i = 2

\* C6: no cancel that raises is escalated: the except clause of main never
\* catches an exception raised by a cancel call of chain_trade.
C6_CancelNeverEscalates ==
    err # "cancel"

\* C7: an error raised by a position read or an order submission during a
\* chain walk is the last call of its step, no order follows it, and main
\* ends with the session status failed and that error re-raised.
C7_WalkErrorsFailSession ==
    (err \in {"oracle", "order"} /\ err_at \in WalkSteps) =>
       /\ pc = "handler" => Last(ev).op = "raise"
       /\ pc \in {"handler", "handler_status", "exit"}
       /\ pc # "handler" => Orders(ev) = <<>>
       /\ pc = "exit" => (status = "failed" /\ exit_err = err)

\* C8 (its first half; the claim adds that no run ends with the status still
\* running): a terminal status is written at most once per session --
\* completed is never followed by failed.
C8_StatusWrittenOnce ==
    Len(status_writes) <= 1

C10_TradeLogFireAndForget ==
    ~(err = "db" /\ err_at \in WalkSteps)

\* C12: the group handed to chain_trade for an iteration after the first has
\* exactly 5 accounts, its head is the tail of the previous chain (what main
\* kept when that chain returned), the other 4 are accounts other than that
\* tail, and no account is in the group twice.
C12_LaterGroups ==
    [][/\ (pc = "pair" /\ pc' = "next_iter") =>
             last_wallet' = ct.group[Len(ct.group)]
       /\ (pc = "call" /\ pc' # "handler" /\ iter_no >= 1) =>
             LET g == ct'.group IN
             /\ Len(g) = 5
             /\ g[1] = last_wallet
             /\ \A k \in 2 .. Len(g) : g[k] # last_wallet /\ g[k] \in Range(Clients)
             /\ \A j \in 1 .. Len(g), k \in 1 .. Len(g) : j # k => g[j] # g[k]]_vars

C12_Witness ==
    /\ pc = "pair"
    /\ iter_no >= 1
    /\ Len(ct.group) = 5
    /\ ct.group[1] = last_wallet
    /\ ct.i = 1

\* C13: the final-disposal sell is submitted only when every chain walk of
\* the session has returned and none raised; it is one order, by the tail of
\* the last chain walked, at main's best bid, for the target size; no order
\* of any kind follows it, and none follows an exception.
AfterWalks == {"final_log", "mark", "log_completed", "handler", "handler_status", "exit"}

C13_FinalSell ==
    [][/\ pc' = "final_log" =>
             /\ pc = "next_iter"
             /\ iter_no = iterations + 1
             /\ ct = NoFrame
             /\ err = "none"
             /\ last_wallet = next_group[Len(next_group)]
             /\ ev' = <<Order(last_wallet, "SELL", best_bid, size)>>
       /\ pc \in AfterWalks => Orders(ev') = <<>>
       /\ (pc = "next_iter" /\ pc' # "final_log") => Orders(ev') = <<>>]_vars

C13_Witness ==
    /\ pc = "final_log"
    /\ iterations >= 1
    /\ Len(Orders(ev)) = 1
    /\ ev[1].w = last_wallet

\* C14 as the spec states it: every Phase A that completes, whether the
\* head already held the target or the buy loop ran, records exactly one
\* trade-log entry tagged initial_buy.
C14_EveryPhaseALogs ==
    [][(pc \in {"A_read", "A_loop"} /\ pc' = "pair") =>
          /\ Len(Logs(ev')) = 1
          /\ Logs(ev')[1].tag = "initial_buy"]_vars

\* C14, amended: a Phase A whose buy loop ran to the target ends with exactly
\* one log_trade of the head's BUY of size at buy_price tagged initial_buy; a
\* Phase A whose head already held the target ends with no trade-log entry;
\* and no other step logs an initial_buy.
C14_LoopLogsOnce ==
    [][/\ (pc = "A_loop" /\ pc' = "pair") =>
             Logs(ev') = <<[op |-> "log_trade", w |-> ct.group[1], side |-> "BUY",
                            tag |-> "initial_buy", price |-> ct.buy_price,
                            size |-> ct.size]>>
       /\ (pc = "A_read" /\ pc' = "pair") =>
             /\ Logs(ev') = <<>>
             /\ ct'.acquired = ct.size
       /\ (\E k \in 1 .. Len(ev') : ev'[k].tag = "initial_buy") =>
             (pc = "A_loop" /\ pc' = "pair")]_vars

C14_Witness ==
    /\ pc = "pair"
    /\ ct.i = 1
    /\ ~ct.skip_initial_buy
    /\ Len(Logs(ev)) = 1
    /\ Logs(ev)[1].tag = "initial_buy"

\* C15 as the spec states it: during the walk of a chain after the first,
\* whatever anomalies occur, Phase A never runs.
C15_PhaseANeverLater ==
    iter_no >= 1 => pc \notin {"A_read", "A_loop"}

\* C15, amended: a chain after the first is started with skip_initial_buy
\* set, at its first pair, with no call made; while that holds every BUY is
\* a pair's BUY at the mid price; Phase A is entered in such a chain only by
\* a misfill restart of a pair attempt, which calls chain_trade again with
\* skip_initial_buy unset.
C15_SkippedUntilMisfill ==
    [][/\ (pc = "call" /\ iter_no >= 1 /\ pc' # "handler") =>
             /\ pc' = "pair"
             /\ ct'.skip_initial_buy
             /\ ct'.i = 1
             /\ ev' = <<>>
       /\ (iter_no >= 1 /\ pc \in WalkSteps /\ ct.skip_initial_buy) =>
             /\ pc \in {"pair", "attempt"}
             /\ \A k \in 1 .. Len(ev') :
                   (ev'[k].op = "order" /\ ev'[k].side = "BUY") =>
                      (ev'[k].price = ct.mid_price /\ ev'[k].price # ct.buy_price
                       /\ ev'[k].w = ct.group[ct.i + 1])
       /\ (iter_no >= 1 /\ pc' \in {"A_read", "A_loop"} /\ pc \notin {"A_read", "A_loop"}) =>
             /\ pc = "attempt"
             /\ restarts' = restarts + 1
             /\ ~ct'.skip_initial_buy
             /\ ct'.group = ct.group]_vars

C15_Witness ==
    /\ iter_no >= 1
    /\ pc = "attempt"
    /\ ct.skip_initial_buy
    /\ ct.i >= 2

\* C20: when chain_trade advances past a pair by a full match, at the first
\* read or at the recheck, after any partial-fill and retry rounds, the
\* seller's position has dropped by at least target and the buyer's has risen
\* by at least target since the pair's snapshot.
C20_FullMatchMovesTarget ==
    [][(pc = "attempt" /\ pc' = "pair" /\ ~HasCall(ev', "nbbo")) =>
          LET first == Logs(ev') # <<>>
              moved_out == IF first THEN ct'.sold ELSE ct'.re_sold
              moved_in  == IF first THEN ct'.bought ELSE ct'.re_bought
          IN
          /\ moved_out >= ct.initial_size
          /\ moved_in >= ct.initial_size]_vars

\* C21: a pair left by a full match seen at the recheck is left as one seen at
\* the first read is: both legs logged as chain_match rows (the buyer's BUY,
\* then the seller's SELL, of remaining at the mid price), remaining 0, the
\* walk at the next pair.
C21_RecheckFullLikeFull ==
    [][(pc = "attempt" /\ pc' = "pair" /\ ~HasCall(ev', "nbbo")) =>
          /\ Logs(ev') =
               <<LogTrade(ct.group[ct.i + 1], "BUY", ct.mid_price, ct.remaining,
                          "chain_match"),
                 LogTrade(ct.group[ct.i], "SELL", ct.mid_price, ct.remaining,
                          "chain_match")>>
          /\ ct'.remaining = 0
          /\ ct'.i = ct.i + 1]_vars

\* C22: a partial fill (two reads, no row written or tried, no third read
\* tried) sends the cancel
\* of the buy and the cancel of the sell of that attempt after both orders,
\* takes sold (0 < sold < remaining) off remaining and stays on the same pair
\* with the mid price and the snapshot unchanged, so that the next attempt is a
\* sell and a buy of the new remaining at the mid price.
C22_PartialCancelsBoth ==
    [][(/\ pc = "attempt"
        /\ Len(Reads(ev')) = 2
        /\ Logs(ev') = <<>>
        /\ err' \notin {"db", "oracle"}) =>
          /\ SubSeq(ev', 5, Len(ev')) = <<Cancel(ct.group[ct.i + 1], "buy"),
                                          Cancel(ct.group[ct.i], "sell")>>
          /\ Len(Orders(SubSeq(ev', 1, 2))) = 2
          /\ pc' = "attempt"
          /\ ct'.sold > 0
          /\ ct'.remaining = ct.remaining - ct'.sold
          /\ ct'.remaining > 0
          /\ ct' = [ct EXCEPT !.remaining = ct'.remaining, !.sold = ct'.sold]]_vars

\* C23: a pass through the else branch (four reads) that sends the cancel of
\* the buy and is not a misfill restart is the cancel-and-retry outcome: it
\* sends the cancel of the sell too, both after the orders and the reads, and
\* stays on the same pair with remaining, the prices and the snapshot as they
\* were.
C23_RetryCancelsBoth ==
    [][(/\ pc = "attempt"
        /\ Len(Reads(ev')) = 4
        /\ \E k \in 1 .. Len(ev') : ev'[k] = Cancel(ct.group[ct.i + 1], "buy")
        /\ pc' # "A_read") =>
          /\ SubSeq(ev', 7, Len(ev')) = <<Cancel(ct.group[ct.i + 1], "buy"),
                                          Cancel(ct.group[ct.i], "sell")>>
          /\ Len(Orders(SubSeq(ev', 1, 2))) = 2
          /\ pc' = "attempt"
          /\ ct' = ct]_vars

\* C24: a pass of the pair loop that raises nothing starts with exactly two
\* orders at the mid price, the sell of remaining by group[i-1] and then the
\* buy of remaining by group[i] (any further order is the divert sell, after
\* the NBBO was fetched); a pass that raises has submitted none, the sell, or
\* both.  The first pass of a pair has remaining = target (the size of the
\* session), and the seller of the pair after is the buyer of the pair left.
C24_TwoOrdersPerAttempt ==
    [][/\ pc = "attempt" =>
            LET sell == Order(ct.group[ct.i], "SELL", ct.mid_price, ct.remaining)
                buy  == Order(ct.group[ct.i + 1], "BUY", ct.mid_price, ct.remaining)
            IN
            /\ pc' # "handler" =>
                  /\ SubSeq(ev', 1, 2) = <<sell, buy>>
                  /\ \A k \in 3 .. Len(ev') :
                        IsOrder(ev'[k]) =>
                           /\ ev'[k - 1] = Nbbo
                           /\ ev'[k].w = ct.group[ct.i]
                           /\ ev'[k].side = "SELL"
            /\ pc' = "handler" => Orders(ev') \in {<<>>, <<sell>>, <<sell, buy>>}
            /\ pc' = "pair" => ct'.group[ct'.i] = ct.group[ct.i + 1]
       /\ (pc = "pair" /\ pc' = "attempt") =>
            /\ ct'.remaining = size
            /\ ct'.remaining = ct'.initial_size
            /\ ct'.mid_price = MidPrice(best_bid, best_ask)
            /\ Orders(ev') = <<>>]_vars

C24_Witness ==
    /\ pc = "attempt"
    /\ size = 2
    /\ ct.i = 2
    /\ ct.remaining = 1
    /\ Orders(ev) = <<Order(ct.group[2], "SELL", ct.mid_price, 2),
                      Order(ct.group[3], "BUY", ct.mid_price, 2)>>

\* C25 (over the classifier's table): a row of the else branch is decided a
\* misfill only if the buyer's delta of the second read is still 0, and a
\* divert only if the seller's delta of the second read is still below
\* remaining.
C25_DecidedOnRecheck ==
    /\ cl.anomaly = "misfill" => cl.re_bought = 0
    /\ cl.anomaly = "divert" => cl.re_sold < cl.remaining

\* C26: when a pass leaves the pair without a full match at the first read,
\* the mid-price order the deltas do not count as filled has been sent a
\* cancel: a divert (the seller's delta is below remaining) has sent the
\* cancel of the seller's sell before the divert sell, a misfill restart (the
\* buyer's delta is 0) the cancel of the buyer's buy.
C26_LeftOrdersCancelled ==
    [][(pc = "attempt" /\ pc' \in {"pair", "A_read"} /\ Logs(ev') = <<>>) =>
          /\ HasCall(ev', "nbbo") =>
                \E k \in 1 .. Len(ev') :
                   /\ ev'[k] = Cancel(ct.group[ct.i], "sell")
                   /\ k < IndexOf(ev', "nbbo")
          /\ pc' = "A_read" =>
                \E k \in 1 .. Len(ev') : ev'[k] = Cancel(ct.group[ct.i + 1], "buy")]_vars

\* C27: a step of chain_trade that calls the recorder goes where the same step
\* goes without a recorder, whatever the recorder holds or answers: out of
\* Phase A to the first pair, or past the pair matched to the next one, with
\* the chain it was given, so that the orders and cancels that follow are the
\* same.
C27_RecorderNoInfluence ==
    [][(pc \in WalkSteps /\ (Logs(ev') # <<>> \/ err' = "db")) =>
          /\ pc' = "pair"
          /\ ct'.group = ct.group
          /\ ct'.i = IF pc = "A_loop" THEN 1 ELSE ct.i + 1]_vars

\* C28: if the venue fills the resting acquisition order and the oracle shows
\* it (the fill lies within what the oracle can answer), Phase A leaves its
\* loop for the first pair, which it does only with acquired >= target, or an
\* order submission or a read raises; and a round that leaves acquired short
\* never ends the loop, whatever the number of rounds before it: it changes
\* the frame's last read and acquired only, and the loop is left by an error
\* of the gateway or the oracle or not at all.
C28_AcquisitionTerminates ==
    /\ (pc = "A_loop" /\ ct.start_vol0 + ct.size \in Positions)
          ~> (pc = "pair" \/ pc = "handler")
    /\ [][(pc = "A_loop" /\ ct.acquired < ct.size) =>
             /\ pc' = "pair" => FALSE
             /\ pc' = "handler" => err' \in {"order", "oracle"}
             /\ pc' = "A_loop" =>
                   /\ ct' = [ct EXCEPT !.post_vol0 = ct'.post_vol0,
                                       !.acquired = ct'.post_vol0 - ct.start_vol0]
                   /\ restarts' = restarts
             /\ pc' \in {"pair", "handler", "A_loop"}]_vars
    /\ [][(pc = "A_loop" /\ pc' = "pair") => ct.acquired >= ct.size]_vars

C28_Witness ==
    /\ pc = "pair"
    /\ ~ct.skip_initial_buy
    /\ ct.i = 1
    /\ ct.start_vol0 = 0
    /\ ct.post_vol0 = 2
    /\ ct.acquired = 2
    /\ ct.size = 2
    /\ Logs(ev) = <<LogTrade(ct.group[1], "BUY", ct.buy_price, 2, "initial_buy")>>

\* C29: a round of the acquisition loop submits one order, the head's buy at
\* the acquisition price, first; a round that leaves acquired short ends with
\* the cancel request for that buy (answered or raising, the last call of the
\* round, so before the buy of the round after); the round in which acquired
\* reaches target sends no cancel.
C29_CancelBeforeNextBuy ==
    [][(pc = "A_loop" /\ pc' = "A_loop") =>
          /\ Len(ev') >= 2
          /\ ev'[1] = Order(ct.group[1], "BUY", ct.buy_price, ct.size - ct.acquired)
          /\ Len(Orders(ev')) = 1
          /\ IF ct'.acquired < ct.size
             THEN /\ Len(ev') = 3
                  /\ ev'[3] \in {Cancel(ct.group[1], "buy"),
                                 CancelFailed(ct.group[1], "buy")}
                  /\ Len(Cancels(ev')) = 1
             ELSE Cancels(ev') = <<>>]_vars

C29_Witness ==
    /\ pc = "A_loop"
    /\ ct.size = 2
    /\ ct.acquired = 1
    /\ Len(ev) = 3
    /\ ev[1] = Order(ct.group[1], "BUY", ct.buy_price, 1)
    /\ ev[3] = Cancel(ct.group[1], "buy")

\* C30: inside one invocation of chain_trade the pair index moves by +1 when
\* a pair is left and not otherwise, so no pair is attempted after it was
\* left; the index starts again only in the invocation a misfill restarts
\* into (from Phase A, index 0); and when that invocation has returned, the
\* call is over for the invocation that restarted into it as well: the return
\* makes no call, leaves no frame, and main goes on to the next iteration.
C30_IndexOnlyAdvances ==
    [][/\ (pc \in {"pair", "attempt"} /\ pc' \in {"pair", "attempt"}) =>
            /\ restarts' = restarts
            /\ ct'.group = ct.group
            /\ ct'.i = IF pc = "attempt" /\ pc' = "pair" THEN ct.i + 1 ELSE ct.i
       /\ (pc = "attempt" /\ pc' = "A_read") =>
            /\ restarts' = restarts + 1
            /\ ct'.i = 0
            /\ ct'.group = ct.group
       /\ (pc \in WalkSteps /\ pc' \notin WalkSteps) =>
            /\ ct' = NoFrame
            /\ pc' \in {"next_iter", "handler"}
            /\ pc' = "next_iter" =>
                  /\ ev' = <<>>
                  /\ ct.i = Len(ct.group)
                  /\ iter_no' = iter_no + 1
       /\ pc \notin WalkSteps \cup {"call"} => ct' = NoFrame]_vars

C30_Witness ==
    /\ pc = "next_iter"
    /\ restarts = 1
    /\ iter_no = 1
    /\ ct = NoFrame
    /\ ev = <<>>

\* The session has recorded every chain it has: record_sequence has returned
\* for iteration `iterations`
RecordedAll ==
    \/ iter_no > iterations
    \/ /\ iter_no = iterations
       /\ \/ pc \in WalkSteps \cup {"call"}
          \/ err # "none" /\ err_at \in WalkSteps \cup {"call"}

MaxMarkets == 2          \* lines of the cheap-markets file found active: 0..MaxMarkets
MaxRetries == 1          \* --max-retries is drawn from 0..MaxRetries
MinActiveDefault == 20   \* Settings.min_active_markets
MaxWorkersDefault == 10  \* Settings.max_workers

\* min(settings.max_workers, len(active_markets))
Min(a, b) == IF a < b THEN a ELSE b

\* min_active = args.min_active or settings.min_active_markets
MinActive(arg, setting) == IF Truthy(arg) THEN CHOOSE x \in arg : TRUE ELSE setting

\* cross_fill_for(cid, settings.wallets_csv, settings.db_path): the wallets
\* file a worker is started with does not depend on its market
WorkerWallets(cid) == Clients

\* The accounts a worker's session trades with from its first chain on:
\* initial_group = clients[:5] of the wallets it was given
WorkerAccounts(cid) == Range(SubSeq(WorkerWallets(cid), 1, FirstChainLen))

\* main after the arguments and the settings are read: retries = 0,
\* active_markets = []
InitRunner ==
    /\ InitMain
    /\ iterations = 0 /\ size = 1
    /\ cl = NoRow /\ book = NoBook /\ cfg = NoCfg /\ scan = NoScan
    /\ \E mr \in 0 .. MaxRetries, mw \in {1, MaxWorkersDefault},
          arg \in {None} \cup {Some(n) : n \in 0 .. MaxMarkets} :
          run = [pc |-> "loop", max_retries |-> mr,
                 min_active |-> MinActive(arg, MinActiveDefault),
                 max_workers |-> mw, retries |-> 0, active |-> <<>>,
                 regens |-> 0, regen_failed |-> FALSE, now |-> 0,
                 workers |-> 0, pending |-> {}, running |-> {},
                 completed |-> {}, failed |-> {}]

\* One test of "while retries <= max_retries" and the pass it lets in: read
\* the active markets; too few: regenerate the file (return if that fails)
\* and count the retry; enough: break.
\* regens counts the calls of regenerate_cheap_markets; now is the number of
\* active markets a read of the file would find: what the last read found,
\* or whatever market_scan.py has written since.
RunnerLoop ==
    /\ run.pc = "loop"
    /\ IF run.retries <= run.max_retries
       THEN \E n \in 0 .. MaxMarkets :
               LET active == [k \in 1 .. n |-> k] IN
               IF n < run.min_active
               THEN \/ \E m \in 0 .. MaxMarkets :
                          run' = [run EXCEPT !.active = active, !.retries = @ + 1,
                                             !.regens = @ + 1, !.now = m]
                    \/ run' = [run EXCEPT !.active = active, !.pc = "done",
                                          !.regens = @ + 1, !.regen_failed = TRUE,
                                          !.now = n]
               ELSE run' = [run EXCEPT !.active = active, !.pc = "after", !.now = n]
       ELSE run' = [run EXCEPT !.pc = "after"]
    /\ UNCHANGED <<mainVars, cl, book, cfg, scan>>

\* "if not active_markets: return", else one cross_fill_for is submitted per
\* active market to a pool of min(max_workers, len(active_markets)) processes
RunnerLaunch ==
    /\ run.pc = "after"
    /\ IF run.active = <<>>
       THEN run' = [run EXCEPT !.pc = "done"]
       ELSE run' = [run EXCEPT !.pc = "wait",
                               !.workers = Min(run.max_workers, Len(run.active)),
                               !.pending = Range(run.active)]
    /\ UNCHANGED <<mainVars, cl, book, cfg, scan>>

\* A free process of the pool takes a submitted market and starts cross_fill.py
WorkerStart ==
    /\ run.pc = "wait"
    /\ Cardinality(run.running) < run.workers
    /\ \E cid \in run.pending :
          run' = [run EXCEPT !.pending = @ \ {cid}, !.running = @ \cup {cid}]
    /\ UNCHANGED <<mainVars, cl, book, cfg, scan>>

\* A worker's subprocess ends; as_completed: fut.result() returns the market
\* or raises (check=True), which is logged
WorkerEnd ==
    /\ run.pc = "wait"
    /\ \E cid \in run.running :
          \/ run' = [run EXCEPT !.running = @ \ {cid}, !.completed = @ \cup {cid}]
          \/ run' = [run EXCEPT !.running = @ \ {cid}, !.failed = @ \cup {cid}]
    /\ UNCHANGED <<mainVars, cl, book, cfg, scan>>

\* Every future is done: the executor is left and main returns
RunnerExit ==
    /\ run.pc = "wait"
    /\ run.pending = {} /\ run.running = {}
    /\ run' = [run EXCEPT !.pc = "done"]
    /\ UNCHANGED <<mainVars, cl, book, cfg, scan>>

NextRunner == RunnerLoop \/ RunnerLaunch \/ WorkerStart \/ WorkerEnd \/ RunnerExit

SpecRunner == InitRunner /\ [][NextRunner]_vars

\* C11: the workers the orchestrator has running at the same time trade with
\* pairwise disjoint sets of accounts.
C11_WorkersDisjoint ==
    \A c1 \in run.running, c2 \in run.running :
       c1 # c2 => WorkerAccounts(c1) \cap WorkerAccounts(c2) = {}

\* C17: workers are launched only when the active markets read last are at
\* least min_active.
C17_LaunchNeedsMinActive ==
    run.pc = "wait" => Len(run.active) >= run.min_active

\* C32: every pass of the regeneration loop leaves it or counts a retry, and
\* retries never passes max_retries + 1, so the loop ends; the market file is
\* regenerated at most max_retries + 1 times; after a regeneration that
\* failed nothing is launched; workers are launched only when a read of the
\* market file as it is then finds an active market; and every market
\* submitted is run and reported, completed or failed, whatever became of the
\* others.
C32_RunnerTerminates ==
    [][/\ run.pc = "loop" =>
            \/ run'.pc # "loop"
            \/ run'.retries = run.retries + 1 /\ run'.retries <= run.max_retries + 1
       /\ run'.regens <= run.max_retries + 1
       /\ run'.regen_failed =>
            /\ run'.pc = "done"
            /\ run'.workers = 0
            /\ run'.pending \cup run'.running \cup run'.completed \cup run'.failed = {}
       /\ (run.pc = "after" /\ run'.pc = "wait") => run.now > 0
       /\ (run.pc = "after" /\ run'.pc = "done") => run'.workers = 0
       /\ run'.pc = "wait" =>
            /\ run'.pending \cup run'.running \cup run'.completed \cup run'.failed
                  = Range(run'.active)
            /\ run'.workers >= 1
       /\ (run.pc = "wait" /\ run'.pc = "done") =>
            run'.completed \cup run'.failed = Range(run'.active)]_vars

\* ============================================== fetch_nbbo (cross_fill.py)
MaxLevels == 2      \* price levels per side of the book: 0..MaxLevels

\* The price strings of the book's JSON
PriceText == {"0", "0.48", "0.51", "0.53", "0.55"}

\* float(b['price']), in hundredths
Float(text) ==
    CASE text = "0"    -> 0
      [] text = "0.48" -> 48
      [] text = "0.51" -> 51
      [] text = "0.53" -> 53
      [] text = "0.55" -> 55

\* (faulty variant) the lowest price of the side
MaxOf_Min(prices) == CHOOSE x \in Range(prices) : \A y \in Range(prices) : x <= y

\* max(bids)
MaxOf(prices) == CHOOSE x \in Range(prices) : \A y \in Range(prices) : y <= x

\* min(asks)
MinOf(prices) == CHOOSE x \in Range(prices) : \A y \in Range(prices) : x <= y

\* bids = [float(b['price']) for b in data.get('bids', [])], asks likewise:
\* a level is a record with a price; a side is a list of levels
PricesOf(side) == [k \in 1 .. Len(side) |-> Float(side[k].price)]

\* return (max(bids) if bids else None, min(asks) if asks else None)
NbboOf(data) ==
    LET bids == PricesOf(data.bids)
        asks == PricesOf(data.asks)
    IN << IF bids # <<>> THEN Some(MaxOf(bids)) ELSE None,
          IF asks # <<>> THEN Some(MinOf(asks)) ELSE None >>

Levels == [price : PriceText]
Sides == UNION {[1 .. n -> Levels] : n \in 0 .. MaxLevels}

\* fetch_nbbo is about to be called; the venue holds some book
InitNbbo ==
    /\ InitMain
    /\ iterations = 0 /\ size = 1
    /\ cl = NoRow /\ run = NoRun /\ cfg = NoCfg /\ scan = NoScan
    /\ \E bids \in Sides, asks \in Sides :
          book = [pc |-> "call", data |-> [bids |-> bids, asks |-> asks],
                  result |-> <<None, None>>]

\* fetch_nbbo(token_id): the GET and raise_for_status, then the two sides
FetchNbbo ==
    /\ book.pc = "call"
    /\ \/ book' = [book EXCEPT !.pc = "raised"]
       \/ book' = [book EXCEPT !.pc = "returned", !.result = NbboOf(book.data)]
    /\ UNCHANGED <<mainVars, cl, run, cfg, scan>>

SpecNbbo == InitNbbo /\ [][FetchNbbo]_vars

\* C16: fetch_nbbo returns the highest bid price and the lowest ask price of
\* the book; a side with no levels gives None and not 0; bids [0.51, 0.48]
\* and asks [0.55, 0.53] give (0.51, 0.53).
C16_Nbbo ==
    book.pc = "returned" =>
       LET bids == book.data.bids
           asks == book.data.asks
           bid  == book.result[1]
           ask  == book.result[2]
       IN
       /\ Len(bids) = 0 => (bid = {} /\ bid # {0})
       /\ Len(asks) = 0 => (ask = {} /\ ask # {0})
       /\ Len(bids) > 0 =>
             \E k \in 1 .. Len(bids) :
                /\ bid = {Float(bids[k].price)}
                /\ \A j \in 1 .. Len(bids) : Float(bids[j].price) <= Float(bids[k].price)
       /\ Len(asks) > 0 =>
             \E k \in 1 .. Len(asks) :
                /\ ask = {Float(asks[k].price)}
                /\ \A j \in 1 .. Len(asks) : Float(asks[k].price) <= Float(asks[j].price)
       /\ (/\ bids = <<[price |-> "0.51"], [price |-> "0.48"]>>
           /\ asks = <<[price |-> "0.55"], [price |-> "0.53"]>>) =>
             book.result = <<{51}, {53}>>

C16_Witness ==
    /\ book.pc = "returned"
    /\ book.data.bids = <<[price |-> "0.51"], [price |-> "0.48"]>>
    /\ book.data.asks = <<[price |-> "0.55"], [price |-> "0.53"]>>
    /\ book.result = <<{51}, {53}>>

\* ============================================ scan_and_write (market_scan.py)
MaxFound == 3       \* markets the scanner finds: 0..MaxFound
MaxTop == 3         \* top_n is drawn from 0..MaxTop

\* config._first_wallet: None when the wallets file is missing or has no row
FirstWallet(wallets) == IF wallets = "rows" THEN Some("w0") ELSE None

\* config.build_scanner_client: None without a first wallet, else a client
BuildScannerClient(wallets) ==
    IF FirstWallet(wallets) = None THEN None ELSE Some("client")

\* get_top_markets_by_price: candidates[:top_n]
TopMarkets(found, top_n) == SubSeq(found, 1, Min(top_n, Len(found)))

\* scan_and_write(filepath, top_n) is about to be called: the wallets file is
\* missing, empty or has rows; the file at filepath is absent (None) or holds
\* some lines
InitScan ==
    /\ InitMain
    /\ iterations = 0 /\ size = 1
    /\ cl = NoRow /\ run = NoRun /\ book = NoBook /\ cfg = NoCfg
    /\ \E wallets \in {"missing", "empty", "rows"}, top_n \in 0 .. MaxTop,
          out \in {None, Some(<<>>), Some(<<"stale">>), Some(<<"stale", "stale">>)} :
          scan = [pc |-> "call", wallets |-> wallets, top_n |-> top_n,
                  out |-> out, client |-> None, result |-> -1]

\* client = build_scanner_client(); if client is None: return 0
ScanBuildClient ==
    /\ scan.pc = "call"
    /\ LET client == BuildScannerClient(scan.wallets) IN
       IF client = None
       THEN scan' = [scan EXCEPT !.pc = "returned", !.result = 0]
       ELSE scan' = [scan EXCEPT !.pc = "scan", !.client = client]
    /\ UNCHANGED <<mainVars, cl, run, book, cfg>>

\* markets = client.get_top_markets_by_price(top_n) (it may raise); the file
\* is opened for writing, one line is written per market, the count returned
ScanWrite ==
    /\ scan.pc = "scan"
    /\ \/ scan' = [scan EXCEPT !.pc = "raised"]
       \/ \E n \in 0 .. MaxFound :
             LET markets == TopMarkets([k \in 1 .. n |-> "line"], scan.top_n) IN
             scan' = [scan EXCEPT !.pc = "returned", !.out = Some(markets),
                                  !.result = Len(markets)]
    /\ UNCHANGED <<mainVars, cl, run, book, cfg>>

NextScan == ScanBuildClient \/ ScanWrite

SpecScan == InitScan /\ [][NextScan]_vars

\* C18: when the wallets file does not exist, scan_and_write returns 0 and
\* the output file then exists and is empty.
C18_NoWalletsEmptyFile ==
    (scan.pc = "returned" /\ scan.wallets = "missing") =>
       /\ scan.result = 0
       /\ scan.out = {<<>>}

\* ================================================ load_settings (settings.py)
\* Values are carried as text; a cast gives the text of the value it makes.
\* One key of each kind: str, int, float, and the upper-cased log level.
Keys == {"CLOB_HOST", "CHAIN_ID", "DB_PATH", "TRADE_DELAY_MIN", "LOG_LEVEL"}

\* The defaults passed to env(...)
Default(key) ==
    CASE key = "CLOB_HOST"       -> "https://clob.polymarket.com"
      [] key = "CHAIN_ID"        -> "137"
      [] key = "DB_PATH"         -> "polyfarm.db"
      [] key = "TRADE_DELAY_MIN" -> "4.0"
      [] key = "LOG_LEVEL"       -> "INFO"

\* What the process environment may hold for a key, and the right-hand side
\* of a KEY=VALUE line of the .env file
EnvText == {"80001", "debug"}
FileText == {"80001", "'debug'"}

\* val.strip().strip('"').strip("'")
Unquote(raw) == IF raw = "'debug'" THEN "debug" ELSE raw

\* int(value): None stands for the exception
IntCast(text) == IF text = "80001" THEN Some("80001") ELSE None

\* float(value): None stands for the exception
FloatCast(text) == IF text = "80001" THEN Some("80001.0") ELSE None

\* str(value)
StrCast(text) == Some(text)

\* the caster load_settings passes for the key
Caster(key, text) ==
    CASE key = "CHAIN_ID"        -> IntCast(text)
      [] key = "TRADE_DELAY_MIN" -> FloatCast(text)
      [] OTHER                   -> StrCast(text)

\* str.upper()
Upper(text) == IF text = "debug" THEN "DEBUG" ELSE text

\* _cast(value, default, caster): the default when value is None or the
\* caster raises
CastOr(key, value) ==
    IF value = None THEN Default(key)
    ELSE LET made == Caster(key, CHOOSE t \in value : TRUE) IN
         IF made = None THEN Default(key) ELSE CHOOSE v \in made : TRUE

\* (faulty variant) os.environ[key] = val
SetDefault_Overwrite(environ, key, val) == [environ EXCEPT ![key] = Some(val)]

\* os.environ.setdefault(key, val)
SetDefault(environ, key, val) ==
    IF environ[key] = None THEN [environ EXCEPT ![key] = Some(val)] ELSE environ

RECURSIVE LoadLines(_, _, _)
\* load_env_file: setdefault for each KEY=VALUE line of the file
LoadLines(environ, file, keys) ==
    IF keys = {} THEN environ
    ELSE LET key == CHOOSE k \in keys : TRUE
             next == IF file[key] = None THEN environ
                     ELSE SetDefault(environ, key, Unquote(CHOOSE r \in file[key] : TRUE))
         IN LoadLines(next, file, keys \ {key})

\* Settings(clob_host=env("CLOB_HOST", ..., str), ..., log_level=env("LOG_LEVEL",
\* "INFO", str).upper(), ...)
SettingsOf(environ) ==
    [key \in Keys |->
        IF key = "LOG_LEVEL" THEN Upper(CastOr(key, environ[key]))
        ELSE CastOr(key, environ[key])]

\* load_settings is about to be called: the process environment and the
\* .env file (no file: no lines) hold a value for some of the keys
InitSettings ==
    /\ InitMain
    /\ iterations = 0 /\ size = 1
    /\ cl = NoRow /\ run = NoRun /\ book = NoBook /\ scan = NoScan
    /\ \E given \in [Keys -> {None} \cup {Some(t) : t \in EnvText}],
          file \in [Keys -> {None} \cup {Some(r) : r \in FileText}] :
          cfg = [pc |-> "call", given |-> given, environ |-> given, file |-> file,
                 result |-> [key \in Keys |-> "-"]]

\* load_env_file()
LoadEnvFile ==
    /\ cfg.pc = "call"
    /\ cfg' = [cfg EXCEPT !.pc = "loaded",
                          !.environ = LoadLines(cfg.environ, cfg.file, Keys)]
    /\ UNCHANGED <<mainVars, cl, run, book, scan>>

\* return Settings(...)
BuildSettings ==
    /\ cfg.pc = "loaded"
    /\ cfg' = [cfg EXCEPT !.pc = "returned", !.result = SettingsOf(cfg.environ)]
    /\ UNCHANGED <<mainVars, cl, run, book, scan>>

NextSettings == LoadEnvFile \/ BuildSettings

SpecSettings == InitSettings /\ [][NextSettings]_vars

=============================================================================
